---- MODULE Spec2Model ----
(***************************************************************************)
(* Model of the ATLAS telemetry core: the sample generator, the alert      *)
(* check-then-insert, the WebSocket fan-out (server/routes) and the        *)
(* scenario manager (server/reactor-scenarios).                            *)
(*                                                                         *)
(* Node runs one callback at a time, so every action below is one run of   *)
(* JavaScript from the resumption of an await (or the firing of a timer or *)
(* socket event) up to the next await.  A storage call is a suspension     *)
(* point: its promise resolves in a later action, or rejects.              *)
(***************************************************************************)
EXTENDS Integers, Sequences, FiniteSets, Bags, TLC

(* ---------------------------------------------------------------------- *)
(* Bounds                                                                  *)
(* ---------------------------------------------------------------------- *)
NumObservers == 2
MaxTicks == 2
MaxFanTicks == 1

Observers == 1..NumObservers

(* ---------------------------------------------------------------------- *)
(* SENSOR_CONFIGS (two of the twelve rows)                                 *)
(* ---------------------------------------------------------------------- *)
SENSOR_CONFIGS ==
  [ CoreTemp01 |-> [nodeId |-> "CORE-TEMP-01", baseValue |-> 580, variance |-> 8,
                    threshold |-> 590, maxValue |-> 620],
    CoolPri01  |-> [nodeId |-> "COOL-PRI-01", baseValue |-> 1247, variance |-> 30,
                    threshold |-> 1180, maxValue |-> 1400] ]

Sensors == DOMAIN SENSOR_CONFIGS

\* (Math.random() - 0.5) * config.variance lies in [-variance/2, variance/2):
\* the two ends of that range
Variations(config) == {0 - (config.variance \div 2), (config.variance \div 2) - 1}

AllVariations == UNION {Variations(SENSOR_CONFIGS[s]) : s \in DOMAIN SENSOR_CONFIGS}

\* a property the config object does not carry reads as undefined
Has(config, field) == field \in DOMAIN config

\* status of a value: "critical" above threshold and above 0.9 * maxValue.
\* value > undefined is false; config.maxValue && ... is false for an
\* undefined maxValue and for maxValue 0
StatusOf(value, config) ==
  IF Has(config, "threshold") /\ value > config.threshold
  THEN IF Has(config, "maxValue") /\ config.maxValue # 0
          /\ value * 10 > config.maxValue * 9
       THEN "critical" ELSE "warning"
  ELSE "normal"

VARIABLES
  clients,          \* Set<WebSocket>, in insertion order
  readyState,       \* ws.readyState of every observer socket
  received,         \* the messages each observer socket has been sent
  handshake,        \* position of sendLatestData(ws) for every observer
  sensorDataTable,  \* rows of sensor_data, in commit order
  alertsTable,      \* rows of alerts, in commit order
  cycles,           \* generateSensorData callbacks that are awaiting storage
  ticks,            \* number of firings of the 2 s interval
  broadcasted,      \* the calls of broadcast(): the event, and the observer
                    \* whose send threw (0 when every send returned)
  activeScenario,   \* ReactorScenarioManager.activeScenario ("null" or an id)
  currentPhase,     \* ReactorScenarioManager.currentPhase
  scenarioStartTime,\* ReactorScenarioManager.scenarioStartTime (0 = null, else
                    \* the serial of the startScenario call that set it)
  phaseTimer,       \* ReactorScenarioManager.phaseTimer (0 = null, else a handle)
  timers,           \* setTimeout callbacks that are pending
  timerSeq,         \* number of setTimeout handles handed out
  procs,            \* bag of scenario-manager async calls awaiting storage
  systemLogs,       \* bag of system_logs rows written by the scenario manager
  aiRecommendations,\* number of ai_recommendations rows written by it
  starts,           \* number of startScenario calls
  stops,            \* number of stopScenario calls through the stop route
  stoppedRuns,      \* runs on which stopScenario has acted
  startReplies,     \* per startScenario call: the id asked for and the status
                    \* POST /api/scenarios/:id/start answered ("pending" while
                    \* the call awaits)
  deleteReply,      \* the latest DELETE /api/alerts/:id: its id and status
  evalValue,        \* the value last evaluated against a config
  evalConfig,       \* that config
  evalStatus,       \* the status computed for it ("none" before the first)
  insightTicks,     \* number of firings of the 30 s performAiAnalysis interval
  healthTicks,      \* number of firings of the 30 s health-check interval
  promises,         \* pending storage promises of performAiAnalysis and
                    \* createSystemLog
  recommendations,  \* rows of ai_recommendations written by performAiAnalysis
  routeLogs,        \* number of system_logs rows written by createSystemLog
  unhandledRejections, \* promises that rejected with no handler attached
  timedRows,        \* rows of sensor_data with their timestamp column
  dbClock,          \* the database clock behind defaultNow()
  hook,             \* useWebSocket: websocketRef and reconnectTimeoutRef (0 =
                    \* null), the reconnectAttempts and isConnected state
  hookSockets,      \* readyState of every WebSocket the hook has created
  hookTimers,       \* reconnect timers that are pending
  hookTimerSeq,     \* number of setTimeout handles the hook was handed
  disconnected      \* disconnect() has run

scenarioVars == <<activeScenario, currentPhase, scenarioStartTime, phaseTimer,
                  timers, timerSeq, procs, systemLogs, aiRecommendations,
                  starts, stops, stoppedRuns, startReplies>>

evalVars == <<evalValue, evalConfig, evalStatus>>

insightVars == <<insightTicks, healthTicks, promises, recommendations,
                 routeLogs, unhandledRejections>>

latestVars == <<timedRows, dbClock>>

hookVars == <<hook, hookSockets, hookTimers, hookTimerSeq, disconnected>>

sideVars == <<insightVars, latestVars, hookVars>>

vars == <<clients, readyState, received, handshake, sensorDataTable,
          alertsTable, cycles, ticks, broadcasted, scenarioVars, deleteReply,
          evalVars, sideVars>>

sampleVars == <<cycles, ticks, broadcasted>>

storageVars == <<sensorDataTable, alertsTable>>
socketVars == <<clients, readyState, received, handshake>>

(* ---------------------------------------------------------------------- *)
(* Helpers                                                                 *)
(* ---------------------------------------------------------------------- *)
Range(s) == {s[i] : i \in DOMAIN s}

SeqWithout(s, x) == SelectSeq(s, LAMBDA y : y # x)

\* storage.getActiveAlerts(): rows with isActive = true
getActiveAlerts == {a \in Range(alertsTable) : a.isActive}

\* storage.getLatestSensorData(): per nodeId the row with the greatest
\* timestamp; the scan replaces only on a strictly greater timestamp
getLatestSensorData ==
  [s \in Sensors |->
     LET rows == {i \in DOMAIN sensorDataTable :
                    sensorDataTable[i].nodeId = SENSOR_CONFIGS[s].nodeId}
     IN IF rows = {} THEN 0
        ELSE sensorDataTable[CHOOSE i \in rows : \A j \in rows : j <= i].id]

(* ---------------------------------------------------------------------- *)
(* broadcast(data): clients.forEach(client => if OPEN: client.send(...))   *)
(* failAt = 0: every send returns.  failAt = k: the send to the k-th       *)
(* client throws; forEach stops there and the exception reaches the caller.*)
(* ---------------------------------------------------------------------- *)
SendThrows(failAt) ==
  /\ failAt \in DOMAIN clients
  /\ readyState[clients[failAt]] = "OPEN"

\* broadcast without the readyState check of line 566
Delivered_NoReadyStateCheck(failAt) ==
  {clients[i] : i \in {j \in DOMAIN clients : SendThrows(failAt) => j < failAt}}

Delivered(failAt) ==
  {clients[i] : i \in {j \in DOMAIN clients :
                         /\ readyState[clients[j]] = "OPEN"
                         /\ (SendThrows(failAt) => j < failAt)}}

broadcast(data, failAt) ==
  /\ received' = [o \in Observers |->
                    IF o \in Delivered(failAt)
                    THEN Append(received[o], data) ELSE received[o]]
  /\ broadcasted' = broadcasted \cup
       {[event |-> data,
         threw |-> IF SendThrows(failAt) THEN clients[failAt] ELSE 0]}

FailChoices == 0..Len(clients)

Event(type, data) == [type |-> type, data |-> data, alert |-> 0]

(* ---------------------------------------------------------------------- *)
(* wss.on('connection') and sendLatestData                                 *)
(* ---------------------------------------------------------------------- *)
SnapshotReads == <<"getLatestSensorData", "getActiveAlerts",
                   "getRecentAiRecommendations", "getRecentSystemLogs",
                   "getAllServerConnections">>

NoSnapshot == [s \in Sensors |-> 0]

Init ==
  /\ clients = <<>>
  /\ readyState = [o \in Observers |-> "NONE"]
  /\ received = [o \in Observers |-> <<>>]
  /\ handshake = [o \in Observers |-> [pc |-> 0, sensorData |-> NoSnapshot]]
  /\ sensorDataTable = <<>>
  /\ alertsTable = <<>>
  /\ cycles = {}
  /\ ticks = 0
  /\ broadcasted = {}
  /\ activeScenario = "null"
  /\ currentPhase = 0
  /\ scenarioStartTime = 0
  /\ phaseTimer = 0
  /\ timers = {}
  /\ timerSeq = 0
  /\ procs = EmptyBag
  /\ systemLogs = EmptyBag
  /\ aiRecommendations = 0
  /\ starts = 0
  /\ stops = 0
  /\ stoppedRuns = {}
  /\ startReplies = <<>>
  /\ deleteReply = [id |-> 0, status |-> 0]
  /\ evalValue = 0
  /\ evalConfig = [nodeId |-> "none"]
  /\ evalStatus = "none"
  /\ insightTicks = 0
  /\ healthTicks = 0
  /\ promises = {}
  /\ recommendations = <<>>
  /\ routeLogs = 0
  /\ unhandledRejections = 0
  /\ timedRows = <<>>
  /\ dbClock = 0
  /\ hook = [websocketRef |-> 0, reconnectTimeoutRef |-> 0,
             reconnectAttempts |-> 0, isConnected |-> FALSE]
  /\ hookSockets = <<>>
  /\ hookTimers = {}
  /\ hookTimerSeq = 0
  /\ disconnected = FALSE

\* connection event: clients.add(ws); sendLatestData(ws) runs up to its first await
Connection(o) ==
  /\ readyState[o] = "NONE"
  /\ readyState' = [readyState EXCEPT ![o] = "OPEN"]
  /\ clients' = Append(clients, o)
  /\ handshake' = [handshake EXCEPT ![o].pc = 1]
  /\ UNCHANGED <<received, storageVars, cycles, ticks, broadcasted, scenarioVars, deleteReply, evalVars, sideVars>>

\* one of the first four awaits of sendLatestData resolves
SnapshotRead(o) ==
  /\ handshake[o].pc \in 1..(Len(SnapshotReads) - 1)
  /\ handshake' = [handshake EXCEPT
       ![o].pc = @ + 1,
       ![o].sensorData = IF handshake[o].pc = 1 THEN getLatestSensorData ELSE @]
  /\ UNCHANGED <<clients, readyState, received, storageVars, cycles, ticks, broadcasted, scenarioVars, deleteReply, evalVars, sideVars>>

\* the last await resolves: send initial_data if the socket is still OPEN
SendInitialData(o) ==
  /\ handshake[o].pc = Len(SnapshotReads)
  /\ handshake' = [handshake EXCEPT ![o].pc = Len(SnapshotReads) + 1]
  /\ received' = [received EXCEPT
       ![o] = IF readyState[o] = "OPEN"
              THEN Append(@, [type |-> "initial_data",
                              data |-> handshake[o].sensorData, alert |-> 0])
              ELSE @]
  /\ UNCHANGED <<clients, readyState, storageVars, cycles, ticks, broadcasted, scenarioVars, deleteReply, evalVars, sideVars>>

\* a snapshot read rejects: the catch logs, nothing is sent
SnapshotReadFails(o) ==
  /\ handshake[o].pc \in 1..Len(SnapshotReads)
  /\ handshake' = [handshake EXCEPT ![o].pc = Len(SnapshotReads) + 2]
  /\ UNCHANGED <<clients, readyState, received, storageVars, cycles, ticks, broadcasted, scenarioVars, deleteReply, evalVars, sideVars>>

\* the socket starts closing; its 'close' event has not been emitted yet
BeginClose(o) ==
  /\ readyState[o] = "OPEN"
  /\ readyState' = [readyState EXCEPT ![o] = "CLOSING"]
  /\ UNCHANGED <<clients, received, handshake, storageVars, cycles, ticks, broadcasted, scenarioVars, deleteReply, evalVars, sideVars>>

\* ws.on('close'): clients.delete(ws)
OnClose(o) ==
  /\ readyState[o] \in {"OPEN", "CLOSING"}
  /\ readyState' = [readyState EXCEPT ![o] = "CLOSED"]
  /\ clients' = SeqWithout(clients, o)
  /\ UNCHANGED <<received, handshake, storageVars, cycles, ticks, broadcasted, scenarioVars, deleteReply, evalVars, sideVars>>

(* ---------------------------------------------------------------------- *)
(* generateSensorData: SENSOR_CONFIGS.forEach(async (config) => ...)       *)
(* ---------------------------------------------------------------------- *)
Cycle(tick, s, value) ==
  [tick |-> tick, sensor |-> s,
   status |-> StatusOf(value, SENSOR_CONFIGS[s]),
   pc |-> "createSensorData", reading |-> 0]

\* the interval fires: every callback runs up to its createSensorData await
GenerateSensorData(maxTicks) ==
  /\ ticks < maxTicks
  /\ ticks' = ticks + 1
  /\ \E variation \in [Sensors -> AllVariations] :
       /\ \A s \in Sensors : variation[s] \in Variations(SENSOR_CONFIGS[s])
       /\ cycles' = cycles \cup
            {Cycle(ticks + 1, s, SENSOR_CONFIGS[s].baseValue + variation[s]) : s \in Sensors}
  /\ UNCHANGED <<socketVars, storageVars, broadcasted, scenarioVars, deleteReply, evalVars, sideVars>>

SensorUpdate(c, id) == Event("sensor_update", id)

\* createSensorData resolves: the row is committed; a normal reading is broadcast
\* at once, a warning or critical one first asks for the active alerts
CreateSensorDataDone(c) ==
  /\ c.pc = "createSensorData"
  /\ LET id == Len(sensorDataTable) + 1 IN
     /\ sensorDataTable' = Append(sensorDataTable,
          [id |-> id, nodeId |-> SENSOR_CONFIGS[c.sensor].nodeId,
           status |-> c.status])
     /\ IF c.status \in {"warning", "critical"}
        THEN /\ cycles' = (cycles \ {c}) \cup
                            {[c EXCEPT !.pc = "getActiveAlerts", !.reading = id]}
             /\ UNCHANGED <<received, broadcasted>>
        ELSE /\ cycles' = cycles \ {c}
             /\ \E failAt \in FailChoices : broadcast(SensorUpdate(c, id), failAt)
  /\ UNCHANGED <<clients, readyState, handshake, alertsTable, ticks, scenarioVars, deleteReply, evalVars, sideVars>>

\* getActiveAlerts resolves: hasActiveAlert is decided on the rows read now
GetActiveAlertsDone(c) ==
  /\ c.pc = "getActiveAlerts"
  /\ LET hasActiveAlert ==
           \E alert \in getActiveAlerts :
              alert.sensorNodeId = SENSOR_CONFIGS[c.sensor].nodeId /\ alert.isActive
     IN IF ~hasActiveAlert
        THEN /\ cycles' = (cycles \ {c}) \cup {[c EXCEPT !.pc = "createAlert"]}
             /\ UNCHANGED <<received, broadcasted>>
        ELSE /\ cycles' = cycles \ {c}
             /\ \E failAt \in FailChoices : broadcast(SensorUpdate(c, c.reading), failAt)
  /\ UNCHANGED <<clients, readyState, handshake, storageVars, ticks, scenarioVars, deleteReply, evalVars, sideVars>>

\* createAlert resolves: the alert row is committed, then the reading is broadcast
CreateAlertDone(c) ==
  /\ c.pc = "createAlert"
  /\ alertsTable' = Append(alertsTable,
       [id |-> Len(alertsTable) + 1, sensorNodeId |-> SENSOR_CONFIGS[c.sensor].nodeId,
        alertType |-> c.status, isActive |-> TRUE])
  /\ cycles' = cycles \ {c}
  /\ \E failAt \in FailChoices : broadcast(SensorUpdate(c, c.reading), failAt)
  /\ UNCHANGED <<clients, readyState, handshake, sensorDataTable, ticks, scenarioVars, deleteReply, evalVars, sideVars>>

\* one try around the whole forEach: a rejection ends every callback of the tick
StorageCallFails_AbortsTick(c) ==
  /\ cycles' = {d \in cycles : d.tick # c.tick}
  /\ UNCHANGED <<socketVars, storageVars, ticks, broadcasted, scenarioVars, deleteReply, evalVars, sideVars>>

\* any of the three storage calls rejects: the catch logs and the callback ends
StorageCallFails(c) ==
  /\ cycles' = cycles \ {c}
  /\ UNCHANGED <<socketVars, storageVars, ticks, broadcasted, scenarioVars, deleteReply, evalVars, sideVars>>

(* ---------------------------------------------------------------------- *)
(* Specifications                                                          *)
(* ---------------------------------------------------------------------- *)
Next ==
  \/ \E o \in Observers : Connection(o)
  \/ \E o \in Observers : SnapshotRead(o)
  \/ \E o \in Observers : SendInitialData(o)
  \/ \E o \in Observers : SnapshotReadFails(o)
  \/ \E o \in Observers : BeginClose(o)
  \/ \E o \in Observers : OnClose(o)
  \/ GenerateSensorData(MaxFanTicks)
  \/ \E c \in cycles : CreateSensorDataDone(c)
  \/ \E c \in cycles : GetActiveAlertsDone(c)
  \/ \E c \in cycles : CreateAlertDone(c)
  \/ \E c \in cycles : StorageCallFails(c)

Spec == Init /\ [][Next]_vars

(* ---------------------------------------------------------------------- *)
(* DELETE /api/alerts/:id -> storage.deactivateAlert(id)                   *)
(* ---------------------------------------------------------------------- *)
\* deactivateAlert as a delete of the row
deactivateAlert_DeletesRow(id) ==
  SelectSeq(alertsTable, LAMBDA a : a.id # id)

deactivateAlert(id) ==
  [i \in DOMAIN alertsTable |->
     IF alertsTable[i].id = id
     THEN [alertsTable[i] EXCEPT !.isActive = FALSE] ELSE alertsTable[i]]

\* the route answers {success: true} whenever the update resolves, and 500
\* when it rejects
DeactivateAlert ==
  /\ \E id \in 1..(Len(alertsTable) + 1), status \in {200, 500} :
       /\ alertsTable' = IF status = 200 THEN deactivateAlert(id) ELSE alertsTable
       /\ deleteReply' = [id |-> id, status |-> status]
  /\ UNCHANGED <<socketVars, sensorDataTable, cycles, ticks, broadcasted, scenarioVars, evalVars, sideVars>>

\* the sample generator and the alert table, with overlapping ticks
NextAlerts ==
  \/ GenerateSensorData(MaxTicks)
  \/ \E c \in cycles : CreateSensorDataDone(c)
  \/ \E c \in cycles : GetActiveAlertsDone(c)
  \/ \E c \in cycles : CreateAlertDone(c)
  \/ \E c \in cycles : StorageCallFails(c)
  \/ DeactivateAlert

SpecAlerts == Init /\ [][NextAlerts]_vars

(* ---------------------------------------------------------------------- *)
(* ReactorScenarioManager                                                  *)
(* ---------------------------------------------------------------------- *)
MaxStarts == 2
MaxStops == 2

NumPhases == 2
ModsPerPhase == 1
AlertsPerPhase == 1

\* two of the three scenarios, abridged to NumPhases phases of ModsPerPhase
\* sensorModifications and AlertsPerPhase alertConditions (the source's have
\* three to five phases of three or four modifications and one or two alerts)
Phase(mods, alerts) == [sensorModifications |-> mods, alertConditions |-> alerts]

scenarios ==
  [ SteamLineBreak  |-> [i \in 1..NumPhases |-> Phase(ModsPerPhase, AlertsPerPhase)],
    StationBlackout |-> [i \in 1..NumPhases |-> Phase(ModsPerPhase, AlertsPerPhase)] ]

ScenarioIds == DOMAIN scenarios

\* ids a caller of POST /api/scenarios/:id/start may send
RequestedIds == ScenarioIds \cup {"unknown"}

Proc(fn, pc, scenario, phase, run) ==
  [fn |-> fn, pc |-> pc, scenario |-> scenario, phase |-> phase, run |-> run]

Spawn(bag, newProcs) == bag (+) SetToBag(newProcs)
Retire(bag, p) == bag (-) SetToBag({p})

Log(message, scenario, phase) ==
  SetToBag({[message |-> message, scenario |-> scenario, phase |-> phase]})

\* storage.createAlert({nodeId, severity, ...}): the insert reads
\* alert.sensorNodeId and alert.alertType, which the scenario manager does not
\* pass; nodeId records the identifier the caller passed
ScenarioAlert(nodeId) ==
  [id |-> Len(alertsTable) + 1, sensorNodeId |-> "undefined",
   alertType |-> "undefined", isActive |-> TRUE, nodeId |-> nodeId]

\* the awaits of executeCurrentPhase, in order: the phase log, one log per
\* sensor modification, one createAlert per alert condition, the recommendation
PhaseAwaits(phase) == 1 + phase.sensorModifications + phase.alertConditions + 1

\* completeScenario() up to its first await, entered with this.activeScenario = as
completeScenarioEntry(as, run) ==
  IF as = "null" THEN {}
  ELSE {Proc("completeScenario", 1, as, 0, run)}

\* executeCurrentPhase() up to its first await
executeCurrentPhaseEntry(as, cp, run) ==
  IF as = "null" \/ cp >= Len(scenarios[as])
  THEN completeScenarioEntry(as, run)
  ELSE {Proc("executeCurrentPhase", 1, as, cp, run)}

\* stopScenario() up to its first await, entered with a scenario active:
\* clearTimeout(this.phaseTimer), then the 'Stopped' log insert is issued
stopScenarioEntry ==
  /\ timers' = {t \in timers : t.id # phaseTimer}
  /\ phaseTimer' = 0
  /\ stoppedRuns' = stoppedRuns \cup {scenarioStartTime}

StoppingProc == Proc("stopScenario", 1, activeScenario, currentPhase, scenarioStartTime)

\* an answer of the start route; status 0 while startScenario is awaiting
StartReply(id, status) == [id |-> id, status |-> status]

fanoutVars == <<socketVars, sensorDataTable, sampleVars, deleteReply, evalVars, sideVars>>

\* startScenario with the stop of the active scenario moved before the lookup
StartScenario_StopsBeforeLookup(scenarioId) ==
  /\ starts < MaxStarts
  /\ starts' = starts + 1
  /\ IF activeScenario # "null"
     THEN stopScenarioEntry
     ELSE UNCHANGED <<timers, phaseTimer, stoppedRuns>>
  /\ LET stopping == IF activeScenario # "null" THEN {StoppingProc} ELSE {}
     IN IF scenarioId \notin ScenarioIds
        THEN /\ startReplies' = Append(startReplies, StartReply(scenarioId, 404))
             /\ procs' = Spawn(procs, stopping)
             /\ UNCHANGED <<activeScenario, currentPhase, scenarioStartTime>>
        ELSE /\ startReplies' = Append(startReplies, StartReply(scenarioId, 0))
             /\ procs' = Spawn(procs, stopping \cup
                          {Proc("startScenario", 1, scenarioId, 0, starts + 1)})
             /\ activeScenario' = scenarioId
             /\ currentPhase' = 0
             /\ scenarioStartTime' = starts + 1
  /\ UNCHANGED <<fanoutVars, alertsTable, timerSeq, systemLogs,
                 aiRecommendations, stops>>

\* POST /api/scenarios/:id/start: startScenario(scenarioId) up to its first
\* await; for an id scenarios.find does not know it returns false at once and
\* the route answers 404
StartScenario(scenarioId) ==
  /\ starts < MaxStarts
  /\ starts' = starts + 1
  /\ IF scenarioId \notin ScenarioIds
     THEN /\ startReplies' = Append(startReplies, StartReply(scenarioId, 404))
          /\ UNCHANGED <<activeScenario, currentPhase, scenarioStartTime, phaseTimer,
                         timers, procs, stoppedRuns>>
     ELSE /\ startReplies' = Append(startReplies, StartReply(scenarioId, 0))
          /\ IF activeScenario # "null"
             THEN /\ stopScenarioEntry
                  /\ procs' = Spawn(procs,
                        {StoppingProc,
                         Proc("startScenario", 1, scenarioId, 0, starts + 1)})
             ELSE /\ UNCHANGED <<timers, phaseTimer, stoppedRuns>>
                  /\ procs' = Spawn(procs,
                        {Proc("startScenario", 1, scenarioId, 0, starts + 1)})
          /\ activeScenario' = scenarioId
          /\ currentPhase' = 0
          /\ scenarioStartTime' = starts + 1
  /\ UNCHANGED <<fanoutVars, alertsTable, timerSeq, systemLogs,
                 aiRecommendations, stops>>

\* startScenario: the 'Started' log insert resolves, createAlert is issued
StartLogged(p) ==
  /\ p.fn = "startScenario" /\ p.pc = 1
  /\ systemLogs' = systemLogs (+) Log("Nuclear Scenario Started", p.scenario, 0)
  /\ procs' = Spawn(Retire(procs, p), {[p EXCEPT !.pc = 2]})
  /\ UNCHANGED <<fanoutVars, startReplies, alertsTable, activeScenario, currentPhase,
                 scenarioStartTime, phaseTimer, timers, timerSeq,
                 aiRecommendations, starts, stops, stoppedRuns>>

\* startScenario: createAlert resolves, executeCurrentPhase() is called
StartAlerted(p) ==
  /\ p.fn = "startScenario" /\ p.pc = 2
  /\ alertsTable' = Append(alertsTable, ScenarioAlert("SCENARIO-CONTROL"))
  /\ startReplies' = [startReplies EXCEPT ![p.run].status = 200]
  /\ procs' = Spawn(Retire(procs, p),
                    executeCurrentPhaseEntry(activeScenario, currentPhase, p.run))
  /\ UNCHANGED <<fanoutVars, activeScenario, currentPhase, scenarioStartTime,
                 phaseTimer, timers, timerSeq, systemLogs, aiRecommendations,
                 starts, stops, stoppedRuns>>

\* executeCurrentPhase: one of the awaits before the recommendation resolves
PhaseStep(p) ==
  /\ p.fn = "executeCurrentPhase"
  /\ LET phase == scenarios[p.scenario][p.phase + 1]
         mods == phase.sensorModifications
     IN /\ p.pc < PhaseAwaits(phase)
        /\ IF p.pc = 1
           THEN /\ systemLogs' = systemLogs (+) Log("Scenario Phase", p.scenario, p.phase + 1)
                /\ UNCHANGED alertsTable
           ELSE IF p.pc <= 1 + mods
           THEN /\ systemLogs' = systemLogs (+) Log("Sensor", p.scenario, p.phase + 1)
                /\ UNCHANGED alertsTable
           ELSE /\ alertsTable' = Append(alertsTable, ScenarioAlert("SCENARIO-EVENT"))
                /\ UNCHANGED systemLogs
        \* the recommendation's title reads this.activeScenario.name: a
        \* TypeError ends the call when the run state has been reset
        /\ IF p.pc + 1 = PhaseAwaits(phase) /\ activeScenario = "null"
           THEN procs' = Retire(procs, p)
           ELSE procs' = Spawn(Retire(procs, p), {[p EXCEPT !.pc = p.pc + 1]})
  /\ UNCHANGED <<fanoutVars, startReplies, activeScenario, currentPhase, scenarioStartTime,
                 phaseTimer, timers, timerSeq, aiRecommendations, starts, stops,
                 stoppedRuns>>

\* executeCurrentPhase: createAiRecommendation resolves, the phase timer is set
PhaseTimerSet(p) ==
  /\ p.fn = "executeCurrentPhase"
  /\ p.pc = PhaseAwaits(scenarios[p.scenario][p.phase + 1])
  /\ aiRecommendations' = aiRecommendations + 1
  /\ timerSeq' = timerSeq + 1
  /\ timers' = timers \cup {[id |-> timerSeq + 1, run |-> p.run]}
  /\ phaseTimer' = timerSeq + 1
  /\ procs' = Retire(procs, p)
  /\ UNCHANGED <<fanoutVars, startReplies, alertsTable, activeScenario, currentPhase,
                 scenarioStartTime, systemLogs, starts, stops, stoppedRuns>>

\* the phase timer fires: this.currentPhase++; this.executeCurrentPhase()
PhaseTimerFires(t) ==
  /\ t \in timers
  /\ timers' = timers \ {t}
  /\ currentPhase' = currentPhase + 1
  /\ procs' = Spawn(procs,
                    executeCurrentPhaseEntry(activeScenario, currentPhase + 1, t.run))
  /\ UNCHANGED <<fanoutVars, startReplies, alertsTable, activeScenario, scenarioStartTime,
                 phaseTimer, timerSeq, systemLogs, aiRecommendations, starts,
                 stops, stoppedRuns>>

\* completeScenario: the 'Completed' log insert resolves; the alert's message
\* reads this.activeScenario.name (TypeError when it is null)
CompleteLogged(p) ==
  /\ p.fn = "completeScenario" /\ p.pc = 1
  /\ systemLogs' = systemLogs (+) Log("Nuclear Scenario Completed", p.scenario, 0)
  /\ IF activeScenario = "null"
     THEN procs' = Retire(procs, p)
     ELSE procs' = Spawn(Retire(procs, p), {[p EXCEPT !.pc = 2]})
  /\ UNCHANGED <<fanoutVars, startReplies, alertsTable, activeScenario, currentPhase,
                 scenarioStartTime, phaseTimer, timers, timerSeq,
                 aiRecommendations, starts, stops, stoppedRuns>>

\* completeScenario: createAlert resolves, the run state is reset
CompleteAlerted(p) ==
  /\ p.fn = "completeScenario" /\ p.pc = 2
  /\ alertsTable' = Append(alertsTable, ScenarioAlert("SCENARIO-CONTROL"))
  /\ activeScenario' = "null"
  /\ currentPhase' = 0
  /\ scenarioStartTime' = 0
  /\ procs' = Retire(procs, p)
  /\ UNCHANGED <<fanoutVars, startReplies, phaseTimer, timers, timerSeq, systemLogs,
                 aiRecommendations, starts, stops, stoppedRuns>>

\* stopScenario() without the guard of line 669
StopScenario_NoIdleGuard ==
  /\ stops < MaxStops
  /\ stops' = stops + 1
  /\ stopScenarioEntry
  /\ procs' = Spawn(procs, {StoppingProc})
  /\ UNCHANGED <<fanoutVars, startReplies, alertsTable, activeScenario, currentPhase,
                 scenarioStartTime, timerSeq, systemLogs, aiRecommendations,
                 starts>>

\* POST /api/scenarios/stop: stopScenario() up to its first await
StopScenario ==
  /\ stops < MaxStops
  /\ stops' = stops + 1
  /\ IF activeScenario = "null"
     THEN UNCHANGED <<timers, phaseTimer, stoppedRuns, procs>>
     ELSE /\ stopScenarioEntry
          /\ procs' = Spawn(procs, {StoppingProc})
  /\ UNCHANGED <<fanoutVars, startReplies, alertsTable, activeScenario, currentPhase,
                 scenarioStartTime, timerSeq, systemLogs, aiRecommendations,
                 starts>>

\* stopScenario: the 'Stopped' log insert resolves, the run state is reset
StopLogged(p) ==
  /\ p.fn = "stopScenario"
  /\ systemLogs' = systemLogs (+) Log("Nuclear Scenario Stopped", p.scenario, p.phase + 1)
  /\ activeScenario' = "null"
  /\ currentPhase' = 0
  /\ scenarioStartTime' = 0
  /\ procs' = Retire(procs, p)
  /\ UNCHANGED <<fanoutVars, startReplies, alertsTable, phaseTimer, timers, timerSeq,
                 aiRecommendations, starts, stops, stoppedRuns>>

\* the storage call a scenario-manager call awaits rejects: the call ends
\* there; the start route's catch answers 500 for a rejected startScenario
ScenarioStorageFails(p) ==
  /\ procs' = Retire(procs, p)
  /\ startReplies' = IF p.fn = "startScenario"
                     THEN [startReplies EXCEPT ![p.run].status = 500]
                     ELSE startReplies
  /\ UNCHANGED <<fanoutVars, alertsTable, activeScenario, currentPhase,
                 scenarioStartTime, phaseTimer, timers, timerSeq, systemLogs,
                 aiRecommendations, starts, stops, stoppedRuns>>

Awaiting == BagToSet(procs)

NextScenario ==
  \/ \E scenarioId \in RequestedIds : StartScenario(scenarioId)
  \/ \E p \in Awaiting : StartLogged(p)
  \/ \E p \in Awaiting : StartAlerted(p)
  \/ \E p \in Awaiting : PhaseStep(p)
  \/ \E p \in Awaiting : PhaseTimerSet(p)
  \/ \E t \in timers : PhaseTimerFires(t)
  \/ \E p \in Awaiting : CompleteLogged(p)
  \/ \E p \in Awaiting : CompleteAlerted(p)
  \/ StopScenario
  \/ \E p \in Awaiting : StopLogged(p)
  \/ \E p \in Awaiting : ScenarioStorageFails(p)

SpecScenario == Init /\ [][NextScenario]_vars

\* the scenario manager when every storage call returns, every timer fires
\* and nobody calls the stop route
NextReturns ==
  \/ \E scenarioId \in RequestedIds : StartScenario(scenarioId)
  \/ \E p \in Awaiting : StartLogged(p)
  \/ \E p \in Awaiting : StartAlerted(p)
  \/ \E p \in Awaiting : PhaseStep(p)
  \/ \E p \in Awaiting : PhaseTimerSet(p)
  \/ \E t \in timers : PhaseTimerFires(t)
  \/ \E p \in Awaiting : CompleteLogged(p)
  \/ \E p \in Awaiting : CompleteAlerted(p)
  \/ \E p \in Awaiting : StopLogged(p)

SpecScenarioReturns == Init /\ [][NextReturns]_vars /\ WF_vars(NextReturns)

(* ---------------------------------------------------------------------- *)
(* The status computation of generateSensorData, on its own                *)
(* ---------------------------------------------------------------------- *)
EvalMax == 10

EvalInts == (0 - 1)..EvalMax

\* configs with and without a threshold and a maxValue
EvalConfigs ==
  {[nodeId |-> "EVAL"]}
    \cup {[nodeId |-> "EVAL", threshold |-> t] : t \in EvalInts}
    \cup {[nodeId |-> "EVAL", maxValue |-> m] : m \in EvalInts}
    \cup {[nodeId |-> "EVAL", threshold |-> t, maxValue |-> m] :
            t \in EvalInts, m \in EvalInts}

\* lines 605-609 applied to one value and one config
Evaluate(value, config) ==
  /\ evalValue' = value
  /\ evalConfig' = config
  /\ evalStatus' = StatusOf(value, config)
  /\ UNCHANGED <<socketVars, storageVars, sampleVars, scenarioVars, deleteReply,
                 sideVars>>

NextEval == \E value \in EvalInts, config \in EvalConfigs : Evaluate(value, config)

SpecEval == Init /\ [][NextEval]_vars

(* ---------------------------------------------------------------------- *)
(* performAiAnalysis, createSystemLog and the health-check interval        *)
(* ---------------------------------------------------------------------- *)
MaxInsightTicks == 2
MaxHealthTicks == 1

\* the confidence of the ten nuclearAnalysisPatterns, in order
nuclearAnalysisPatterns == <<91, 88, 93, 85, 97, 82, 94, 79, 98, 96>>

\* Math.floor(Math.random() * 8) - 4
ConfidenceVariations == (0 - 4)..3

Min(a, b) == IF a < b THEN a ELSE b
Max(a, b) == IF a > b THEN a ELSE b

\* line 748 without the clamps
FinalConfidence_NoClamp(confidence, confidenceVariation) ==
  confidence + confidenceVariation

\* Math.max(75, Math.min(99, analysis.confidence + confidenceVariation))
FinalConfidence(confidence, confidenceVariation) ==
  Max(75, Min(99, confidence + confidenceVariation))

\* a pending storage promise: the call, the tick that issued it and, for a
\* recommendation, the pattern, the variation drawn and the confidence passed
Promise(call, source, tick, template, variation, confidence) ==
  [call |-> call, source |-> source, tick |-> tick, template |-> template,
   variation |-> variation, confidence |-> confidence]

LogPromise(source, tick) == Promise("createSystemLog", source, tick, 0, 0, 0)

insightCore == <<handshake, clients, readyState, storageVars, cycles, ticks,
                 scenarioVars, deleteReply, evalVars, latestVars, hookVars>>

\* the 30 s interval fires performAiAnalysis: with Math.random() < 0.25 it
\* picks a pattern and a variation and issues createAiRecommendation
PerformAiAnalysis ==
  /\ insightTicks < MaxInsightTicks
  /\ insightTicks' = insightTicks + 1
  /\ \/ UNCHANGED promises
     \/ \E template \in DOMAIN nuclearAnalysisPatterns,
           confidenceVariation \in ConfidenceVariations :
          promises' = promises \cup
            {Promise("createAiRecommendation", "ai-system", insightTicks + 1,
                     template, confidenceVariation,
                     FinalConfidence(nuclearAnalysisPatterns[template],
                                     confidenceVariation))}
  /\ UNCHANGED <<insightCore, received, broadcasted, healthTicks,
                 recommendations, routeLogs, unhandledRejections>>

\* createAiRecommendation resolves: .then broadcasts the row and calls
\* createSystemLog; a send that throws inside .then lands in the .catch
CreateAiRecommendationDone(p) ==
  /\ p.call = "createAiRecommendation"
  /\ recommendations' = Append(recommendations,
       [id |-> Len(recommendations) + 1, template |-> p.template,
        variation |-> p.variation, confidence |-> p.confidence])
  /\ \E failAt \in FailChoices :
       /\ broadcast(Event("ai_recommendation", Len(recommendations) + 1), failAt)
       /\ promises' = (promises \ {p}) \cup
            (IF SendThrows(failAt) THEN {} ELSE {LogPromise("ai-system", p.tick)})
  /\ UNCHANGED <<insightCore, insightTicks, healthTicks, routeLogs,
                 unhandledRejections>>

\* createAiRecommendation rejects: the .catch logs the error
CreateAiRecommendationFails(p) ==
  /\ p.call = "createAiRecommendation"
  /\ promises' = promises \ {p}
  /\ UNCHANGED <<insightCore, received, broadcasted, insightTicks, healthTicks,
                 recommendations, routeLogs, unhandledRejections>>

\* the health-check interval fires: with Math.random() < 0.15 it calls
\* createSystemLog
HealthCheck ==
  /\ healthTicks < MaxHealthTicks
  /\ healthTicks' = healthTicks + 1
  /\ \/ UNCHANGED promises
     \/ promises' = promises \cup {LogPromise("health", healthTicks + 1)}
  /\ UNCHANGED <<insightCore, received, broadcasted, insightTicks,
                 recommendations, routeLogs, unhandledRejections>>

\* storage.createSystemLog resolves: .then broadcasts the row; nothing handles
\* a send that throws there
CreateSystemLogDone(p) ==
  /\ p.call = "createSystemLog"
  /\ routeLogs' = routeLogs + 1
  /\ promises' = promises \ {p}
  /\ \E failAt \in FailChoices :
       /\ broadcast(Event("system_log", routeLogs + 1), failAt)
       /\ unhandledRejections' =
            IF SendThrows(failAt) THEN unhandledRejections + 1
            ELSE unhandledRejections
  /\ UNCHANGED <<insightCore, insightTicks, healthTicks, recommendations>>

\* storage.createSystemLog rejects: the promise chain has a .then and no
\* .catch, so the rejection is unhandled
CreateSystemLogFails(p) ==
  /\ p.call = "createSystemLog"
  /\ promises' = promises \ {p}
  /\ unhandledRejections' = unhandledRejections + 1
  /\ UNCHANGED <<insightCore, received, broadcasted, insightTicks, healthTicks,
                 recommendations, routeLogs>>

NextInsight ==
  \/ PerformAiAnalysis
  \/ \E p \in promises : CreateAiRecommendationDone(p)
  \/ \E p \in promises : CreateAiRecommendationFails(p)
  \/ HealthCheck
  \/ \E p \in promises : CreateSystemLogDone(p)
  \/ \E p \in promises : CreateSystemLogFails(p)

SpecInsight == Init /\ [][NextInsight]_vars

(* ---------------------------------------------------------------------- *)
(* DatabaseStorage.getLatestSensorData over rows with timestamps           *)
(* ---------------------------------------------------------------------- *)
MaxRows == 4

\* result.forEach(data => ...): the scan visits the rows in insertion order
\* and replaces the grouped entry only on a strictly greater timestamp
RECURSIVE groupLatest(_, _, _)
groupLatest(result, i, grouped) ==
  IF i > Len(result) THEN grouped
  ELSE LET data == result[i]
           replaces == \/ data.nodeId \notin DOMAIN grouped
                       \/ data.timestamp > grouped[data.nodeId].timestamp
       IN groupLatest(result, i + 1,
            IF replaces
            THEN [n \in DOMAIN grouped \cup {data.nodeId} |->
                    IF n = data.nodeId THEN data ELSE grouped[n]]
            ELSE grouped)

\* getLatestSensorData() on the rows with timestamps
latestByNodeId == groupLatest(timedRows, 1, <<>>)

\* createSensorData for one sensor: the row takes the database clock, which
\* may or may not have advanced since the previous insert
InsertReading(s, elapsed) ==
  /\ Len(timedRows) < MaxRows
  /\ dbClock' = dbClock + elapsed
  /\ timedRows' = Append(timedRows,
       [id |-> Len(timedRows) + 1, nodeId |-> SENSOR_CONFIGS[s].nodeId,
        timestamp |-> dbClock + elapsed])
  /\ UNCHANGED <<socketVars, storageVars, sampleVars, scenarioVars, deleteReply,
                 evalVars, insightVars, hookVars>>

NextLatest == \E s \in Sensors, elapsed \in {0, 1} : InsertReading(s, elapsed)

SpecLatest == Init /\ [][NextLatest]_vars

(* ---------------------------------------------------------------------- *)
(* client hook useWebSocket                                                *)
(* ---------------------------------------------------------------------- *)
MaxSockets == 6

hookCore == <<socketVars, storageVars, sampleVars, scenarioVars, deleteReply,
              evalVars, insightVars, latestVars>>

\* connect(): new WebSocket(wsUrl); websocketRef.current = ws
connect(h) ==
  /\ hookSockets' = Append(hookSockets, "CONNECTING")
  /\ hook' = [h EXCEPT !.websocketRef = Len(hookSockets) + 1]

\* useEffect(() => { connect(); ... }, []) on mount
HookMount ==
  /\ hookSockets = <<>> /\ ~disconnected
  /\ connect(hook)
  /\ UNCHANGED <<hookCore, hookTimers, hookTimerSeq, disconnected>>

\* ws.onopen
HookSocketOpens(w) ==
  /\ hookSockets[w] = "CONNECTING"
  /\ hookSockets' = [hookSockets EXCEPT ![w] = "OPEN"]
  /\ hook' = [hook EXCEPT !.isConnected = TRUE, !.reconnectAttempts = 0]
  /\ UNCHANGED <<hookCore, hookTimers, hookTimerSeq, disconnected>>

\* the socket closes (by the server, the network, or after close()): ws.onclose.
\* The reconnectAttempts its guard reads is the value connect() captured on
\* mount, 0, for every socket (the timer calls that same connect), so the
\* guard reconnectAttempts < maxReconnectAttempts (10) always passes
HookSocketCloses(w) ==
  /\ hookSockets[w] \in {"CONNECTING", "OPEN", "CLOSING"}
  /\ hookSockets' = [hookSockets EXCEPT ![w] = "CLOSED"]
  /\ hookTimerSeq' = hookTimerSeq + 1
  /\ hookTimers' = hookTimers \cup {hookTimerSeq + 1}
  /\ hook' = [hook EXCEPT !.isConnected = FALSE, !.websocketRef = 0,
                          !.reconnectTimeoutRef = hookTimerSeq + 1]
  /\ UNCHANGED <<hookCore, disconnected>>

\* the reconnect timer fires: setReconnectAttempts(prev => prev + 1); connect()
HookTimerFires(t) ==
  /\ t \in hookTimers
  /\ Len(hookSockets) < MaxSockets
  /\ hookTimers' = hookTimers \ {t}
  /\ connect([hook EXCEPT !.reconnectAttempts = @ + 1])
  /\ UNCHANGED <<hookCore, hookTimerSeq, disconnected>>

\* disconnect(), called by the component or by the effect's cleanup
HookDisconnect ==
  /\ hookSockets # <<>>
  /\ hookTimers' = hookTimers \ {hook.reconnectTimeoutRef}
  /\ hookSockets' = IF hook.websocketRef # 0
                       /\ hookSockets[hook.websocketRef] \in {"CONNECTING", "OPEN"}
                    THEN [hookSockets EXCEPT ![hook.websocketRef] = "CLOSING"]
                    ELSE hookSockets
  /\ hook' = [hook EXCEPT !.reconnectTimeoutRef = 0, !.websocketRef = 0,
                          !.isConnected = FALSE]
  /\ disconnected' = TRUE
  /\ UNCHANGED <<hookCore, hookTimerSeq>>

NextHook ==
  \/ HookMount
  \/ \E w \in DOMAIN hookSockets : HookSocketOpens(w)
  \/ \E w \in DOMAIN hookSockets : HookSocketCloses(w)
  \/ \E t \in hookTimers : HookTimerFires(t)
  \/ HookDisconnect

SpecHook == Init /\ [][NextHook]_vars

(* ---------------------------------------------------------------------- *)
(* Client pages: the onMessage reducers on the sensorData state            *)
(* The list holds at most one entry per nodeId (the snapshot has one row   *)
(* per sensor, an update filters its nodeId out before it prepends), so    *)
(* the state is kept as the row id held for every sensor, 0 for no entry.  *)
(* ---------------------------------------------------------------------- *)
RowSensor(id) ==
  CHOOSE s \in Sensors : SENSOR_CONFIGS[s].nodeId = sensorDataTable[id].nodeId

\* initial_data: setSensorData(data.sensorData || [])
\* sensor_update: setSensorData(prev => [data.data, ...prev.filter(other nodeIds)])
onMessage(prev, data) ==
  CASE data.type = "initial_data" -> data.data
    [] data.type = "sensor_update" -> [prev EXCEPT ![RowSensor(data.data)] = data.data]
    [] OTHER -> prev

\* the sensorData state after the first k events of the observer's stream
RECURSIVE sensorDataAfter(_, _)
sensorDataAfter(o, k) ==
  IF k = 0 THEN NoSnapshot
  ELSE onMessage(sensorDataAfter(o, k - 1), received[o][k])

(* ====================================================================== *)
(* Properties                                                              *)
(* ====================================================================== *)
SensorUpdates(o) ==
  {i \in DOMAIN received[o] : received[o][i].type = "sensor_update"}

OpenClients == {o \in Range(clients) : readyState[o] = "OPEN"}

InFlight(readingId) == \E c \in cycles : c.reading = readingId

\* C1: the first event an observer receives is its initial_data; no
\* sensor_update reaches it earlier, whatever the handshake interleaves with.
C1_InitialDataFirst ==
  \A o \in Observers :
     received[o] # <<>> => received[o][1].type = "initial_data"

\* C2: at most one active alert row per sensor identifier, in every
\* reachable state and for every interleaving of two breach evaluations.
C2_OneActiveAlertPerSensor ==
  \A a, b \in getActiveAlerts :
     a.sensorNodeId = b.sensorNodeId => a.id = b.id

\* C6: within one observer's stream the sensor_update events arrive in the
\* order their readings were committed (row ids are assigned in commit order).
C6_CommitOrderPerObserver ==
  \A o \in Observers :
     \A i, j \in SensorUpdates(o) :
        i < j => received[o][i].data < received[o][j].data

\* C7: every persisted reading whose callback has ended was handed to
\* broadcast() as a sensor_update, also when the alert lookup or insert failed.
C7_EveryReadingBroadcast ==
  \A i \in DOMAIN sensorDataTable :
     ~InFlight(sensorDataTable[i].id) =>
        \E b \in broadcasted :
           b.event.type = "sensor_update" /\ b.event.data = sensorDataTable[i].id

\* C8: every alert row that was created has been carried by a broadcast
\* event: an alert_update for it, or a sensor_update that embeds it.
C8_AlertCarriedByEvent ==
  \A i \in DOMAIN alertsTable :
     \E b \in broadcasted :
        \/ b.event.type = "alert_update" /\ b.event.data = alertsTable[i].id
        \/ b.event.type = "sensor_update" /\ b.event.alert = alertsTable[i].id

\* C9: in a broadcast, a send that throws for one observer does not keep the
\* event from any other OPEN observer, wherever the thrower sits in the set.
C9_SendIsolated ==
  [][\A b \in broadcasted' \ broadcasted :
        \A o \in OpenClients :
           o # b.threw => received'[o] = Append(received[o], b.event)]_vars

\* C10: a disconnect changes no other observer's stream and removes the
\* observer from the delivery set; an observer that is closing or closed is
\* sent nothing more; and unless a send throws, a broadcast reaches every
\* OPEN observer whatever the other observers' connection states are.
C10_DisconnectIsolated ==
  [][/\ \A o \in Observers :
          readyState[o] \in {"CLOSING", "CLOSED"} => received'[o] = received[o]
     /\ \A o \in Observers :
          readyState'[o] = "CLOSED" => o \notin Range(clients')
     /\ \A o \in Observers :
          (readyState[o] = "OPEN" /\ readyState'[o] # "OPEN") =>
             /\ \A p \in Observers \ {o} : received'[p] = received[p]
             /\ SeqWithout(clients', o) = SeqWithout(clients, o)
     /\ \A b \in broadcasted' \ broadcasted :
          b.threw = 0 =>
             \A o \in OpenClients : received'[o] = Append(received[o], b.event)
    ]_vars

\* C10 witness: one observer is closed after it received something, and an
\* observer that stayed open has since received a sensor_update the closed
\* one did not get.
C10_Witness ==
  \E o, p \in Observers :
     /\ readyState[o] = "CLOSED" /\ received[o] # <<>>
     /\ readyState[p] = "OPEN"
     /\ \E i \in SensorUpdates(p) : received[p][i] \notin Range(received[o])

\* C3: when startScenario replaces a running scenario, the stop of the old
\* run (its 'Stopped' log and its reset of the run state) is complete before
\* the new run's state is set: no stopScenario call is still awaiting its log
\* insert while the run state belongs to a later run.
C3_StopCompletesBeforeStart ==
  \A p \in Awaiting :
     p.fn = "stopScenario" => scenarioStartTime \in {0, p.run}

\* C4: once stopScenario has acted on a run, no phase timer of that run
\* fires: currentPhase is not incremented on behalf of the stopped run.
C4_NoStaleAdvance ==
  [][\A t \in timers :
        (t.run \in stoppedRuns /\ t \notin timers') =>
           currentPhase' # currentPhase + 1]_vars

\* C5: at most one scenario phase timer is pending in every reachable state.
C5_OnePhaseTimer == Cardinality(timers) <= 1

(* ---------------------------------------------------------------------- *)
(* Connection handshake                                                    *)
(* ---------------------------------------------------------------------- *)
HandshakeEnded(o) == handshake[o].pc > Len(SnapshotReads)

InitialData(o) == {i \in DOMAIN received[o] : received[o][i].type = "initial_data"}

\* C11: an observer whose connection opened and is still open once its
\* snapshot handshake has ended has received exactly one initial_data event,
\* also when one of the snapshot reads failed.
C11_ExactlyOneInitialData ==
  \A o \in Observers :
    (readyState[o] = "OPEN" /\ HandshakeEnded(o)) => Cardinality(InitialData(o)) = 1

(* ---------------------------------------------------------------------- *)
(* Scenario alerts                                                         *)
(* ---------------------------------------------------------------------- *)
\* the sensor identifier the caller of storage.createAlert passed for a row
PassedNodeId(a) == IF Has(a, "nodeId") THEN a.nodeId ELSE a.sensorNodeId

\* the alert row a step inserted for an alert condition of a scenario phase
PhaseAlertCreated(before, after) ==
  /\ Len(after) = Len(before) + 1
  /\ PassedNodeId(after[Len(after)]) = "SCENARIO-EVENT"

\* C12: a scenario phase creates an alert for an alert condition only when no
\* active alert exists for the condition's sensor identifier (or the default
\* identifier): its alerts go through the check-then-insert of the samples.
C12_PhaseAlertsDeduplicated ==
  [][PhaseAlertCreated(alertsTable, alertsTable') =>
       ~ \E a \in getActiveAlerts : PassedNodeId(a) = "SCENARIO-EVENT"]_vars

(* ---------------------------------------------------------------------- *)
(* Scenario run state                                                      *)
(* ---------------------------------------------------------------------- *)
\* number of system_logs rows the scenario manager wrote with this message
LogCount(message) ==
  BagCardinality([l \in {m \in BagToSet(systemLogs) : m.message = message} |->
                    CopiesIn(l, systemLogs)])

\* C13: a stopScenario call made while no scenario is active is a no-op: it
\* issues no log write, creates no alert and leaves activeScenario,
\* currentPhase, scenarioStartTime, phaseTimer and the pending timers as
\* they were.
C13_IdleStopIsNoOp ==
  [][(stops' = stops + 1 /\ activeScenario = "null") =>
       UNCHANGED <<systemLogs, alertsTable, activeScenario, currentPhase,
                   scenarioStartTime, phaseTimer, timers, procs>>]_vars

\* stopScenario was called, after a start call, and every call of it so far
\* found no scenario active
C13_Witness ==
  /\ stops >= 1 /\ stoppedRuns = {}
  /\ starts >= 1 /\ activeScenario = "null"

\* C14: stopScenario is idempotent: however many times it is called for one
\* run, also a second time before the first call's log write has completed,
\* one 'Nuclear Scenario Stopped' log is written per stopped run.
C14_OneStoppedLogPerRun ==
  LogCount("Nuclear Scenario Stopped") <= Cardinality(stoppedRuns)

\* C15: the phase index only advances along Running(i) -> Running(i + 1):
\* a scenario is active, i is one of its phases and the phase-entry action of
\* phase i is over, so phases are entered in increasing order, each once.
C15_PhasesInOrder ==
  [][currentPhase' = currentPhase + 1 =>
       /\ activeScenario # "null"
       /\ currentPhase < Len(scenarios[activeScenario])
       /\ \A p \in Awaiting : p.fn # "executeCurrentPhase"]_vars

\* C17: a startScenario call with an id no scenario has is answered 404 (it
\* returns false, it does not throw), and the call changes nothing: the run
\* state, the phase timer, the calls in flight, the logs and the alerts stay
\* as they were, so a running scenario keeps running.
C17_UnknownIdNotFound ==
  [][/\ \A n \in DOMAIN startReplies' :
          startReplies'[n].id \notin ScenarioIds => startReplies'[n].status = 404
     /\ \A n \in DOMAIN startReplies' \ DOMAIN startReplies :
          startReplies'[n].id \notin ScenarioIds =>
            UNCHANGED <<activeScenario, currentPhase, scenarioStartTime,
                        phaseTimer, timers, procs, stoppedRuns, systemLogs,
                        alertsTable>>]_vars

\* the second start call named an unknown id while the scenario of the first
\* was running; that scenario is in its second phase with its timer pending
C17_Witness ==
  /\ Len(startReplies) = 2
  /\ startReplies[1].id \in ScenarioIds
  /\ startReplies[2].id \notin ScenarioIds /\ startReplies[2].status = 404
  /\ activeScenario = startReplies[1].id
  /\ currentPhase = 1
  /\ \E t \in timers : t.id = phaseTimer

\* startScenario calls that named a scenario
KnownStarts == {n \in DOMAIN startReplies : startReplies[n].id \in ScenarioIds}

\* no scenario-manager call is awaiting and no timer is pending
Quiescent == Awaiting = {} /\ timers = {}

\* C16: when storage calls return and timers fire, every started run that
\* stopScenario never acted on completes: once nothing is left to run, each
\* such run has written its 'Nuclear Scenario Completed' log and the run
\* state is Idle (activeScenario null, currentPhase 0).
C16_StartedRunCompletes ==
  Quiescent =>
    /\ activeScenario = "null" /\ currentPhase = 0
    /\ LogCount("Nuclear Scenario Completed") + Cardinality(stoppedRuns)
         >= Cardinality(KnownStarts)

(* ---------------------------------------------------------------------- *)
(* Alert deactivation                                                      *)
(* ---------------------------------------------------------------------- *)
\* C18: deactivating an alert id that no row has is reported as not found:
\* the success answer is given only for an id some alert row carries.
C18_MissingAlertNotFound ==
  deleteReply.status = 200 => \E a \in Range(alertsTable) : a.id = deleteReply.id

\* the reading whose callback this step ends with its broadcast
Finishes(c) ==
  /\ c.pc # "createSensorData"
  /\ \E b \in broadcasted' \ broadcasted : b.event.data = c.reading

ActiveAlertsOf(s) ==
  {a \in getActiveAlerts : a.sensorNodeId = SENSOR_CONFIGS[s].nodeId}

\* C19: deactivateAlert(id) sets the active flag of the row with that id to
\* false; it deletes no row and touches no other row, so the number of alert
\* rows never decreases.  A deactivated alert does not count as active: a
\* warning or critical evaluation that finds no active alert for its sensor
\* ends only after it has inserted a new active alert for that sensor.
C19_DeactivationKeepsRows ==
  [][/\ Len(alertsTable') >= Len(alertsTable)
     /\ \A i \in DOMAIN alertsTable :
          \/ alertsTable'[i] = alertsTable[i]
          \/ /\ alertsTable'[i] = [alertsTable[i] EXCEPT !.isActive = FALSE]
             /\ deleteReply' = [id |-> alertsTable[i].id, status |-> 200]
     /\ (deleteReply' # deleteReply /\ deleteReply'.status = 200) =>
          \A i \in DOMAIN alertsTable' :
             alertsTable'[i].id = deleteReply'.id => ~alertsTable'[i].isActive
     /\ \A c \in cycles :
          Finishes(c) =>
            IF c.pc = "getActiveAlerts"
            THEN ActiveAlertsOf(c.sensor) # {}
            ELSE /\ Len(alertsTable') = Len(alertsTable) + 1
                 /\ alertsTable'[Len(alertsTable')].isActive
                 /\ alertsTable'[Len(alertsTable')].sensorNodeId =
                      SENSOR_CONFIGS[c.sensor].nodeId]_vars

\* a sensor's alert was deactivated and a later evaluation of that sensor
\* inserted a new active alert: both rows are there
C19_Witness ==
  \E i, j \in DOMAIN alertsTable :
     /\ i < j
     /\ alertsTable[i].sensorNodeId = alertsTable[j].sensorNodeId
     /\ ~alertsTable[i].isActive /\ alertsTable[j].isActive
     /\ deleteReply = [id |-> alertsTable[i].id, status |-> 200]

(* ---------------------------------------------------------------------- *)
(* Threshold evaluation                                                    *)
(* ---------------------------------------------------------------------- *)
\* C20: the computed status equals the reference evaluator's: "critical"
\* iff maxValue is set and value > 0.9 * maxValue and value > threshold,
\* otherwise "warning" iff value > threshold, otherwise "normal"; with no
\* threshold it is "normal", with no maxValue it is never "critical".
C20_StatusMatchesReference ==
  LET aboveThreshold == Has(evalConfig, "threshold") /\ evalValue > evalConfig.threshold
      aboveLimit == Has(evalConfig, "maxValue") /\ evalValue * 10 > evalConfig.maxValue * 9
      reference == IF aboveThreshold /\ aboveLimit THEN "critical"
                   ELSE IF aboveThreshold THEN "warning" ELSE "normal"
  IN evalStatus # "none" => evalStatus = reference

(* ---------------------------------------------------------------------- *)
(* Failure isolation of the sample tick                                    *)
(* ---------------------------------------------------------------------- *)
\* the callbacks this step ended without a broadcast: their storage call failed
FailedNow == {c \in cycles : c \notin cycles' /\ broadcasted' = broadcasted
                               /\ \A d \in cycles' : d.tick # c.tick \/ d.sensor # c.sensor}

\* C21: a storage failure while producing one sensor's sample ends that
\* sensor's callback only: every other callback of the tick stays in flight
\* as it was, and no stored row is touched, so the other sensors' readings
\* are still persisted and broadcast.
C21_FailureIsolatedPerSensor ==
  [][\A c \in FailedNow :
        /\ cycles' = cycles \ {c}
        /\ UNCHANGED <<sensorDataTable, alertsTable>>]_vars

\* the first tick is over: one sensor's createSensorData failed, the other
\* sensor's reading of that tick was persisted and broadcast
C21_Witness ==
  /\ ticks = 1 /\ cycles = {}
  /\ Len(sensorDataTable) = 1
  /\ \E b \in broadcasted : /\ b.event.type = "sensor_update"
                            /\ b.event.data = sensorDataTable[1].id

(* ---------------------------------------------------------------------- *)
(* Timer-driven tasks                                                      *)
(* ---------------------------------------------------------------------- *)
\* C22: a failure of a storage call made from a timer-driven task is caught
\* inside that task: no rejection is ever left unhandled.
C22_TimerTaskFailuresCaught == unhandledRejections = 0

\* C24: every recommendation performAiAnalysis issues or has written has a
\* confidence in [75, 99], for every pattern and every variation drawn.
C24_ConfidenceClamped ==
  /\ \A p \in promises :
       p.call = "createAiRecommendation" => (75 <= p.confidence /\ p.confidence <= 99)
  /\ \A i \in DOMAIN recommendations :
       75 <= recommendations[i].confidence /\ recommendations[i].confidence <= 99

\* a written recommendation whose pattern confidence plus variation exceeds
\* 99 and one whose sum is the floor 75
C24_Witness ==
  /\ \E i \in DOMAIN recommendations :
       /\ nuclearAnalysisPatterns[recommendations[i].template]
            + recommendations[i].variation > 99
       /\ recommendations[i].confidence = 99
  /\ \E i \in DOMAIN recommendations :
       /\ nuclearAnalysisPatterns[recommendations[i].template]
            + recommendations[i].variation = 75
       /\ recommendations[i].confidence = 75

(* ---------------------------------------------------------------------- *)
(* Latest reading per sensor                                               *)
(* ---------------------------------------------------------------------- *)
\* C23: getLatestSensorData returns one reading for every sensor identifier
\* ever written and for no other; it is the reading of that sensor with the
\* greatest timestamp and, among readings of equal timestamp, the one
\* inserted last.
C23_LatestPerSensor ==
  LET written == {timedRows[i].nodeId : i \in DOMAIN timedRows}
      rowsOf(n) == {i \in DOMAIN timedRows : timedRows[i].nodeId = n}
      newest(n) == CHOOSE i \in rowsOf(n) :
                     \A j \in rowsOf(n) :
                        \/ timedRows[j].timestamp < timedRows[i].timestamp
                        \/ timedRows[j].timestamp = timedRows[i].timestamp /\ j <= i
  IN /\ DOMAIN latestByNodeId = written
     /\ \A n \in written : latestByNodeId[n] = timedRows[newest(n)]

(* ---------------------------------------------------------------------- *)
(* Restart, phase index and progress of a run                              *)
(* ---------------------------------------------------------------------- *)
\* the second startScenario call named a scenario while the run of the first
\* was active (it called stopScenario on that run)
RestartedWhileRunning ==
  /\ Len(startReplies) = 2
  /\ KnownStarts = {1, 2}
  /\ 1 \in stoppedRuns

Completed(scenarioId) ==
  \E l \in BagToSet(systemLogs) :
     l.message = "Nuclear Scenario Completed" /\ l.scenario = scenarioId

\* C25: once startScenario(B) was called while A was running, with no
\* further start or stop, the active scenario is B from then on until B has
\* completed.
C25_RestartRunsNewScenario ==
  RestartedWhileRunning =>
    \/ activeScenario = startReplies[2].id
    \/ Completed(startReplies[2].id)

\* C27: whenever a scenario is active, currentPhase is an index of one of its
\* phases, so getCurrentPhase() is non-null and the progress never exceeds
\* the total.
C27_CurrentPhaseValid ==
  activeScenario # "null" => currentPhase < Len(scenarios[activeScenario])

\* C28: a run is never stranded: while a scenario is active a phase timer is
\* pending or a start, phase-entry, completion or stop call is in progress,
\* also after a storage call of startScenario or executeCurrentPhase failed.
C28_RunNeverStranded ==
  activeScenario # "null" => (timers # {} \/ Awaiting # {})

(* ---------------------------------------------------------------------- *)
(* Frame of an active alert                                                *)
(* ---------------------------------------------------------------------- *)
\* C30: while an active alert exists for a sensor no sample evaluation
\* changes it or adds to it: no alert row is inserted for a sensor that has
\* an active alert, and an existing row changes only by deactivateAlert
\* clearing its active flag (its type stays, a normal reading does not
\* deactivate it).
C30_ActiveAlertUntouchedBySamples ==
  [][/\ \A i \in DOMAIN alertsTable :
          \/ alertsTable'[i] = alertsTable[i]
          \/ /\ alertsTable'[i] = [alertsTable[i] EXCEPT !.isActive = FALSE]
             /\ deleteReply' = [id |-> alertsTable[i].id, status |-> 200]
     /\ Len(alertsTable') > Len(alertsTable) =>
          ~ \E a \in getActiveAlerts :
               a.sensorNodeId = alertsTable'[Len(alertsTable')].sensorNodeId]_vars

(* ---------------------------------------------------------------------- *)
(* useWebSocket after disconnect()                                         *)
(* ---------------------------------------------------------------------- *)
\* C29: once disconnect() has run, the hook leaves no reconnect timer pending
\* (so it opens no new connection), also when the closed socket's onclose
\* handler fires after disconnect() returned.
C29_NoReconnectAfterDisconnect == disconnected => hookTimers = {}


(* ---------------------------------------------------------------------- *)
(* The observer's view of the sensors                                      *)
(* ---------------------------------------------------------------------- *)
\* C26: applying the client reducers to an observer's events in send order,
\* the reading held for a sensor is never replaced by one committed earlier,
\* and once every event is processed (no callback in flight, the handshake
\* has sent its snapshot, the socket is open) the observer holds the server's
\* latest reading for every sensor.
C26_ViewNeverGoesBack ==
  \A o \in Observers :
     /\ \A k \in DOMAIN received[o] : \A s \in Sensors :
          LET before == sensorDataAfter(o, k - 1)[s]
              after == sensorDataAfter(o, k)[s]
          IN (before # 0 /\ after # 0) => before <= after
     /\ (/\ cycles = {}
         /\ handshake[o].pc = Len(SnapshotReads) + 1
         /\ readyState[o] = "OPEN")
        => sensorDataAfter(o, Len(received[o])) = getLatestSensorData

====
